---- MODULE Spec2Model ----
(***************************************************************************)
(* State-machine model of the tpm2.0-tools command orchestrators:          *)
(*   certify            src/tools/tpm2_certify.c   lines   1..260          *)
(*   hmac               src/tools/tpm2_certify.c   lines 262..509          *)
(*   nvdefine           src/tools/tpm2_nvdefine.c                          *)
(*   evictcontrol       src/lib/tpm2.h             lines 361..409          *)
(*   activatecredential src/lib/tpm2.h             lines 411..725          *)
(* One tool runs per behaviour: tpm2_tool_onrun, then tpm2_tool_onstop;    *)
(* activatecredential first reads its -i file, and nvdefine its -x index,  *)
(* in on_option.  SpecUnstable runs hmac on a file whose reported size need *)
(* not be its length.                                                      *)
(* The module (TPM) is a black box: every command answers with a tool_rc   *)
(* chosen nondeterministically.                                            *)
(***************************************************************************)
EXTENDS Integers, Sequences, FiniteSets, TLC

(***************************************************************************)
(* tool_rc (lib/tpm2_error.h): success is 0, so that a C `false` returned  *)
(* from a tool_rc function is tool_rc_success.                             *)
(***************************************************************************)
tool_rc_success == 0
tool_rc_general_error == 1
tool_rc_option_error == 2
tool_rc_auth_error == 3

\* Codes a failing module command (or library helper) may hand back.
FailRc == {tool_rc_general_error, tool_rc_auth_error}
CmdRc == {tool_rc_success} \cup FailRc

(***************************************************************************)
(* Bounds.  The module's single-call buffer maximum is scaled down; input  *)
(* lengths cover 0, the maximum, its multiples and non-multiples.          *)
(***************************************************************************)
TPM2_MAX_DIGEST_BUFFER == 2
MaxChunks == 3
MaxInputLen == MaxChunks * TPM2_MAX_DIGEST_BUFFER + 1
Byte == {0, 1}

\* The input streams: one per length, byte i holding the value i, so that a
\* byte lost, repeated or moved on its way to the module shows.  The code
\* never looks at the bytes it reads.
Inputs == {[i \in 1..n |-> i] : n \in 0..MaxInputLen}

Tools == {"certify", "hmac", "nvdefine", "activatecredential", "evictcontrol"}

\* Session pointers held by the tools.
Slots == {"key", "object", "hmac_key", "auth_hierarchy", "tmp",
          "credentialed_key", "credential_key", "policy"}

VARIABLES
    tool,            \* which tool this run is
    pc,              \* position in the run
    rc,              \* tool_rc returned by tpm2_tool_onrun (valid once pc is onstop/stopped)
    stop_rc,         \* tool_rc returned by tpm2_tool_onstop
    cmds,            \* module commands issued so far, in order, with their result
    session,         \* Slots -> "null" | "password" | "open"
    opened,          \* Slots -> number of module sessions started
    closed,          \* Slots -> number of module sessions flushed
    opt,             \* options given on the command line
    input,           \* hmac: bytes of the input stream
    res,             \* hmac: files_get_file_size succeeded
    file_size,       \* hmac: size reported by files_get_file_size
    pos,             \* hmac: read position in the input stream
    left,            \* hmac: remaining-bytes counter
    wrapped,         \* hmac: left was decremented below zero
    sequence_handle, \* hmac: "none" | "live" | "consumed" | "flushed"
    seq_released,    \* hmac: number of releases of the sequence handle
    out_saved,       \* output artifacts persisted to files
    logged,          \* messages written with LOG_WARN / LOG_INFO / LOG_ERR
    cert,            \* certify: key type, hash algorithm, signature scheme
    nv,              \* nvdefine: tpm_nvdefine_ctx and the public area sent
    evict,           \* evictcontrol: out_tr and the new object handle
    cred,            \* activatecredential: the -i file and what on_option read of it
    iter             \* hmac: parity of the number of read-loop iterations begun

vars == <<tool, pc, rc, stop_rc, cmds, session, opened, closed, opt, input, res,
          file_size, pos, left, wrapped, sequence_handle, seq_released, out_saved,
          logged, cert, nv, evict, cred, iter>>

hmac_vars == <<input, res, file_size, pos, left, wrapped, sequence_handle, seq_released>>
sess_vars == <<session, opened, closed>>

----------------------------------------------------------------------------
(* Helpers *)

Min(a, b) == IF a < b THEN a ELSE b

SeqsUpTo(S, n) == UNION {[1..k -> S] : k \in 0..n}

Slice(s, from, n) == [i \in 1..n |-> s[from + i]]

\* A logged module command: its name, the tool_rc it answered with, the data
\* buffer handed to it and the session slot or handle it acts on.
Cmd(c, r, d) == [cmd |-> c, rc |-> r, data |-> d, arg |-> ""]
CmdOn(c, r, a) == [cmd |-> c, rc |-> r, data |-> <<>>, arg |-> a]
\* A logged module command with its handle arguments, in call order.
CmdArgs(c, r, args) == [cmd |-> c, rc |-> r, data |-> <<>>, arg |-> args]

\* Concatenation of the data buffers of the logged commands named in `names`.
RECURSIVE DataOf(_, _)
DataOf(log, names) ==
    IF log = <<>> THEN <<>>
    ELSE (IF Head(log).cmd \in names THEN Head(log).data ELSE <<>>)
         \o DataOf(Tail(log), names)

CmdsNamed(names) == {i \in 1..Len(cmds) : cmds[i].cmd \in names}
Count(names) == Cardinality(CmdsNamed(names))

----------------------------------------------------------------------------
(* Library helpers whose bodies live outside src/ (session manager, object *)
(* and authorization resolvers), modelled from the specification.          *)

\* Mutant of tpm2_session_close: the flush is sent whatever the pointer holds.
tpm2_session_close_unguarded(st, slot, r) ==
    [session |-> [st.session EXCEPT ![slot] = "null"],
     closed  |-> [st.closed EXCEPT ![slot] = @ + 1],
     cmds    |-> Append(st.cmds, CmdOn("FlushContext", r, slot)),
     ret     |-> r]

\* tpm2_session_close(&s): no-op on a NULL pointer; a session started on the
\* module is flushed (the flush may report an error); a password
\* pseudo-session is only freed.  The pointer is NULL afterwards.
\* `st` carries the session table, the flush counters and the command log.
tpm2_session_close(st, slot, r) ==
    IF st.session[slot] = "open"
    THEN [session |-> [st.session EXCEPT ![slot] = "null"],
          closed  |-> [st.closed EXCEPT ![slot] = @ + 1],
          cmds    |-> Append(st.cmds, CmdOn("FlushContext", r, slot)),
          ret     |-> r]
    ELSE [session |-> [st.session EXCEPT ![slot] = "null"],
          closed  |-> st.closed,
          cmds    |-> st.cmds,
          ret     |-> tool_rc_success]

SessState == [session |-> session, closed |-> closed, cmds |-> cmds,
              ret |-> tool_rc_success]

\* tpm2_util_object_load(ectx, objectstr, &obj): no object string -> error
\* without a command; else a context load that the module accepts or rejects.
tpm2_util_object_load(path_set) ==
    IF ~path_set
    THEN {[ret |-> tool_rc_general_error, kind |-> "null", log |-> <<>>]}
    ELSE {[ret |-> r, kind |-> "null", log |-> <<Cmd("ContextLoad", r, <<>>)>>] :
             r \in CmdRc}

\* tpm2_auth_util_from_optarg(ectx, str, &session, is_restricted): a password
\* pseudo-session, or (unless restricted) a session started on the module,
\* or an error that leaves the pointer NULL.
tpm2_auth_util_from_optarg(is_restricted) ==
    {[ret |-> r, kind |-> "null", log |-> <<>>] : r \in FailRc}
    \cup {[ret |-> tool_rc_success, kind |-> "password", log |-> <<>>]}
    \cup (IF is_restricted THEN {}
          ELSE {[ret |-> r, kind |-> "null",
                 log |-> <<Cmd("StartAuthSession", r, <<>>)>>] : r \in FailRc}
               \cup {[ret |-> tool_rc_success, kind |-> "open",
                       log |-> <<Cmd("StartAuthSession", tool_rc_success, <<>>)>>]})

\* tpm2_util_object_load_auth: load, then resolve the auth string into the
\* object's session.
tpm2_util_object_load_auth(path_set) ==
    {o \in tpm2_util_object_load(path_set) : o.ret # tool_rc_success}
    \cup {[ret |-> a.ret, kind |-> a.kind, log |-> o.log \o a.log] :
            o \in {x \in tpm2_util_object_load(path_set) : x.ret = tool_rc_success},
            a \in tpm2_auth_util_from_optarg(FALSE)}

\* Effect of a resolver outcome `o` on the session pointer `slot`.
Resolve(slot, o) ==
    /\ session' = [session EXCEPT ![slot] = o.kind]
    /\ opened' = IF o.kind = "open" THEN [opened EXCEPT ![slot] = @ + 1] ELSE opened
    /\ cmds' = cmds \o o.log
    /\ closed' = closed

\* onrun returns `r`: the tool proceeds to tpm2_tool_onstop.
Return(r) == rc' = r /\ pc' = "onstop"

----------------------------------------------------------------------------
(* hmac tool: src/tools/tpm2_certify.c lines 262..509 *)

\* size_t arithmetic, scaled: left is kept modulo SizeModulus.
SizeModulus == 64

\* Mutant of single_call: the boundary size is sent down the streaming path.
single_call_strict(ok, size) == ok /\ size < TPM2_MAX_DIGEST_BUFFER

\* line 309: the single-call test.
single_call(ok, size) == ok /\ size <= TPM2_MAX_DIGEST_BUFFER

\* Mutant of use_left: the known size is never used to stop the loop.
use_left_never == FALSE

\* line 340: bool use_left = !!res.
use_left == res

\* lines 347-348: fread(data.buffer, 1, BUFFER_SIZE(typeof(data), buffer), input).
fread_count == TPM2_MAX_DIGEST_BUFFER
fread(stream, at) == Min(fread_count, Len(stream) - at)

\* line 369: feof(input) after the fread: the read ran into the end of stream.
feof(stream, at) == Len(stream) - at < fread_count

\* Mutant of loop_done: the loop stops with up to two blocks left.
loop_done_two_blocks(l) == l <= 2 * TPM2_MAX_DIGEST_BUFFER

\* line 365: the loop ends when one block (or less) is left.
loop_done(l) == l <= TPM2_MAX_DIGEST_BUFFER

\* lines 332-334, 359-361, 387-389: what tpm_hmac_file returns when a
\* sequence command answered `r` # tool_rc_success.
hmac_sequence_error(r) == tool_rc_general_error

\* lines 349-352, 359-361, 376-380, 387-389: early returns of tpm_hmac_file
\* leave the sequence handle as it is.
sequence_handle_on_error(h) == h

\* files_read_bytes(f, buf, len): reads exactly len bytes or fails.
files_read_bytes_can_succeed(stream, at, len) == Len(stream) - at >= len
files_read_bytes_can_fail(stream, at, len) == len > 0

\* tpm2_tool_onrun, lines 478-499.
hmac_tpm2_tool_onrun ==
    /\ tool = "hmac" /\ pc = "onrun"
    /\ IF ~opt.C
       THEN /\ Return(tool_rc_option_error)
            /\ logged' = logged \cup {"Must specify options C."}
            /\ UNCHANGED <<cmds, sess_vars>>
       ELSE /\ \E o \in tpm2_util_object_load_auth(opt.C) :
                 /\ Resolve("hmac_key", o)
                 /\ IF o.ret # tool_rc_success
                    THEN /\ Return(o.ret)
                         /\ logged' = logged \cup {"Invalid key handle authorization"}
                    ELSE /\ pc' = "tpm_hmac_file"
                         /\ UNCHANGED <<rc, logged>>
    /\ UNCHANGED <<tool, stop_rc, opt, hmac_vars, out_saved, cert, nv, evict, cred, iter>>

\* tpm_hmac_file, lines 306-323: the whole input in one hmac call.
tpm_hmac_file_single ==
    /\ tool = "hmac" /\ pc = "tpm_hmac_file"
    /\ single_call(res, file_size)
    /\ \/ /\ \/ files_read_bytes_can_fail(input, pos, file_size)
             \/ ~files_read_bytes_can_succeed(input, pos, file_size)
          /\ Return(tool_rc_general_error)
          /\ logged' = logged \cup {"Error reading input file!"}
          /\ UNCHANGED <<cmds, pos>>
       \/ /\ files_read_bytes_can_succeed(input, pos, file_size)
          /\ \E r \in CmdRc :
                /\ cmds' = Append(cmds, Cmd("HMAC", r, Slice(input, pos, file_size)))
                /\ IF r # tool_rc_success
                   THEN Return(r)
                   ELSE pc' = "do_hmac_and_output" /\ rc' = rc
          /\ pos' = pos + file_size
          /\ logged' = logged
    /\ UNCHANGED <<tool, stop_rc, sess_vars, opt, input, res, file_size, left,
                   wrapped, sequence_handle, seq_released, out_saved, cert, nv, evict, cred, iter>>

\* tpm_hmac_file, lines 325-342: start the sequence.
tpm_hmac_file_start ==
    /\ tool = "hmac" /\ pc = "tpm_hmac_file"
    /\ ~single_call(res, file_size)
    /\ \E r \in CmdRc :
          /\ cmds' = Append(cmds, Cmd("HMAC_Start", r, <<>>))
          /\ IF r # tool_rc_success
             THEN /\ Return(hmac_sequence_error(r))
                  /\ UNCHANGED <<sequence_handle, left>>
             ELSE /\ sequence_handle' = "live"
                  /\ left' = file_size
                  /\ pc' = "hmac_loop"
                  /\ rc' = rc
    /\ UNCHANGED <<tool, stop_rc, sess_vars, opt, input, res, file_size, pos,
                   wrapped, seq_released, out_saved, logged, cert, nv, evict, cred, iter>>

\* The command log keeps the first MaxLog commands of a run; the read loop
\* is the one place that can issue more than that.
MaxLog == 12
Logged(log, c) == IF Len(log) < MaxLog THEN Append(log, c) ELSE log

\* tpm_hmac_file, lines 345-372: one iteration of the read/update loop.
tpm_hmac_file_loop ==
    /\ tool = "hmac" /\ pc = "hmac_loop"
    /\ LET bytes_read == fread(input, pos) IN
       \/ \* ferror(input)
          /\ Return(tool_rc_general_error)
          /\ sequence_handle' = sequence_handle_on_error(sequence_handle)
          /\ logged' = logged \cup {"Error reading from input file"}
          /\ UNCHANGED <<cmds, pos, left, wrapped>>
       \/ /\ \E r \in CmdRc :
                /\ cmds' = Logged(cmds,
                               Cmd("SequenceUpdate", r, Slice(input, pos, bytes_read)))
                /\ IF r # tool_rc_success
                   THEN /\ Return(hmac_sequence_error(r))
                        /\ sequence_handle' = sequence_handle_on_error(sequence_handle)
                        /\ UNCHANGED <<left, wrapped>>
                   ELSE /\ sequence_handle' = sequence_handle
                        /\ rc' = rc
                        /\ IF use_left
                           THEN /\ left' = (left - bytes_read) % SizeModulus
                                /\ wrapped' = (wrapped \/ bytes_read > left)
                                /\ pc' = IF loop_done(left') THEN "hmac_complete"
                                                            ELSE "hmac_loop"
                           ELSE /\ UNCHANGED <<left, wrapped>>
                                /\ pc' = IF feof(input, pos) THEN "hmac_complete"
                                                             ELSE "hmac_loop"
          /\ pos' = pos + bytes_read
          /\ logged' = logged
    /\ iter' = 1 - iter
    /\ UNCHANGED <<tool, stop_rc, sess_vars, opt, input, res, file_size,
                   seq_released, out_saved, cert, nv, evict, cred>>

\* Mutant of final_size: sequence-complete is always sent an empty buffer.
final_size_empty(l) == 0

\* lines 374-383: the buffer handed to sequence-complete.
final_size(l) == IF use_left THEN l ELSE 0

\* tpm_hmac_file, lines 374-391: read what is left and complete the sequence.
tpm_hmac_file_complete ==
    /\ tool = "hmac" /\ pc = "hmac_complete"
    /\ LET n == final_size(left) IN
       \/ /\ use_left
          /\ \/ files_read_bytes_can_fail(input, pos, n)
             \/ ~files_read_bytes_can_succeed(input, pos, n)
          /\ Return(tool_rc_general_error)
          /\ sequence_handle' = sequence_handle_on_error(sequence_handle)
          /\ logged' = logged \cup {"Error reading from input file."}
          /\ UNCHANGED <<cmds, pos, seq_released>>
       \/ /\ files_read_bytes_can_succeed(input, pos, n)
          /\ \E r \in CmdRc :
                /\ cmds' = Append(cmds,
                               Cmd("SequenceComplete", r, Slice(input, pos, n)))
                /\ IF r # tool_rc_success
                   THEN /\ Return(hmac_sequence_error(r))
                        /\ sequence_handle' = sequence_handle_on_error(sequence_handle)
                        /\ UNCHANGED seq_released
                   ELSE /\ sequence_handle' = "consumed"
                        /\ seq_released' = seq_released + 1
                        /\ pc' = "do_hmac_and_output"
                        /\ rc' = rc
          /\ pos' = pos + n
          /\ logged' = logged
    /\ UNCHANGED <<tool, stop_rc, sess_vars, opt, input, res, file_size, left,
                   wrapped, out_saved, cert, nv, evict, cred, iter>>

\* do_hmac_and_output, lines 404-425: print the digest, save it when -o was given.
do_hmac_and_output ==
    /\ tool = "hmac" /\ pc = "do_hmac_and_output"
    /\ IF opt.o
       THEN \/ Return(tool_rc_general_error) /\ out_saved' = out_saved
            \/ Return(tool_rc_success) /\ out_saved' = out_saved \cup {"hmac"}
       ELSE Return(tool_rc_success) /\ out_saved' = out_saved
    /\ UNCHANGED <<tool, stop_rc, cmds, sess_vars, opt, hmac_vars, logged, cert, nv, evict, cred, iter>>

\* tpm2_tool_onstop, lines 501-509.
hmac_tpm2_tool_onstop ==
    /\ tool = "hmac" /\ pc = "onstop"
    /\ \E r \in CmdRc :
          LET s1 == tpm2_session_close(SessState, "hmac_key", r) IN
          /\ session' = s1.session /\ closed' = s1.closed /\ cmds' = s1.cmds
          /\ stop_rc' = s1.ret
    /\ pc' = "stopped"
    /\ UNCHANGED <<tool, rc, opened, opt, hmac_vars, out_saved, logged, cert, nv, evict, cred, iter>>

----------------------------------------------------------------------------
(* certify tool: src/tools/tpm2_certify.c lines 1..260 *)

KeyTypes == {"TPM2_ALG_RSA", "TPM2_ALG_KEYEDHASH", "TPM2_ALG_ECC",
             "TPM2_ALG_SYMCIPHER", "TPM2_ALG_NULL"}
HashAlgs == {"TPM2_ALG_SHA1", "TPM2_ALG_SHA256"}
SigSchemes == {"TPM2_ALG_RSASSA", "TPM2_ALG_HMAC", "TPM2_ALG_ECDSA", "TPM2_ALG_NULL"}

\* line 113: TPMT_SIG_SCHEME scheme; -- a local that nothing initializes.
Indeterminate == [scheme |-> "indeterminate", hashAlg |-> "indeterminate"]
\* The values an indeterminate TPMT_SIG_SCHEME may turn out to hold.
SchemeValues == [scheme : SigSchemes, hashAlg : HashAlgs \cup {"TPM2_ALG_ERROR"}]

\* A C bool converted to the integer a tool_rc function returns.
BoolAsRc(b) == IF b THEN 1 ELSE 0

\* Mutant of scheme_of: an ECC key gets the RSA scheme.
scheme_of_ecc_as_rsa(type, halg, old) ==
    CASE type \in {"TPM2_ALG_RSA", "TPM2_ALG_ECC"}
                                     -> [scheme |-> "TPM2_ALG_RSASSA", hashAlg |-> halg]
      [] type = "TPM2_ALG_KEYEDHASH" -> [scheme |-> "TPM2_ALG_HMAC", hashAlg |-> halg]
      [] OTHER                       -> old

\* set_scheme, lines 84-101: the scheme written for a key type.
scheme_of(type, halg, old) ==
    CASE type = "TPM2_ALG_RSA"       -> [scheme |-> "TPM2_ALG_RSASSA", hashAlg |-> halg]
      [] type = "TPM2_ALG_KEYEDHASH" -> [scheme |-> "TPM2_ALG_HMAC", hashAlg |-> halg]
      [] type = "TPM2_ALG_ECC"       -> [scheme |-> "TPM2_ALG_ECDSA", hashAlg |-> halg]
      [] OTHER                       -> old

\* set_scheme, lines 84-103: its return value once the key type is known.
set_scheme(type) ==
    CASE type \in {"TPM2_ALG_RSA", "TPM2_ALG_KEYEDHASH", "TPM2_ALG_ECC"} -> tool_rc_success
      [] OTHER -> BoolAsRc(FALSE)

\* lines 221-226: the test for missing options.
certify_option_error(o) == (~o.C) /\ (~o.c) /\ o.g /\ o.o /\ o.s

\* tpm2_tool_onrun, lines 218-233: option check and load of the object to certify.
certify_tpm2_tool_onrun ==
    /\ tool = "certify" /\ pc = "onrun"
    /\ IF certify_option_error(opt)
       THEN /\ Return(tool_rc_option_error)
            /\ UNCHANGED <<cmds, sess_vars>>
       ELSE \E o \in tpm2_util_object_load_auth(opt.C) :
               /\ Resolve("object", o)
               /\ IF o.ret # tool_rc_success
                  THEN Return(o.ret)
                  ELSE pc' = "certify_load_key" /\ rc' = rc
    /\ UNCHANGED <<tool, stop_rc, opt, hmac_vars, out_saved, logged, cert, nv, evict, cred, iter>>

\* Mutant of certify_load_key: the result of the load is not checked.
certify_load_key_unchecked ==
    /\ tool = "certify" /\ pc = "certify_load_key"
    /\ \E o \in tpm2_util_object_load_auth(opt.c) :
          /\ Resolve("key", o)
          /\ pc' = "set_scheme" /\ rc' = rc
    /\ UNCHANGED <<tool, stop_rc, opt, hmac_vars, out_saved, logged, cert, nv, evict, cred, iter>>

\* tpm2_tool_onrun, lines 235-239: load of the signing key.
certify_load_key ==
    /\ tool = "certify" /\ pc = "certify_load_key"
    /\ \E o \in tpm2_util_object_load_auth(opt.c) :
          /\ Resolve("key", o)
          /\ IF o.ret # tool_rc_success
             THEN Return(o.ret)
             ELSE pc' = "set_scheme" /\ rc' = rc
    /\ UNCHANGED <<tool, stop_rc, opt, hmac_vars, out_saved, logged, cert, nv, evict, cred, iter>>

\* certify_and_save_data lines 113-119 calling set_scheme (75-104) and
\* get_key_type (57-73).
certify_set_scheme ==
    /\ tool = "certify" /\ pc = "set_scheme"
    /\ \E r \in CmdRc :
          /\ cmds' = Append(cmds, Cmd("ReadPublic", r, <<>>))
          /\ IF r # tool_rc_success
             THEN /\ Return(r)
                  /\ logged' = logged \cup {"No suitable signing scheme!"}
                  /\ cert' = cert
             ELSE /\ cert' = [cert EXCEPT
                                !.scheme = scheme_of(cert.key_type, cert.halg, @)]
                  /\ IF set_scheme(cert.key_type) # tool_rc_success
                     THEN /\ Return(set_scheme(cert.key_type))
                          /\ logged' = logged \cup {"Unknown key type",
                                                    "No suitable signing scheme!"}
                     ELSE /\ pc' = "tpm2_certify" /\ rc' = rc
                          /\ logged' = logged \cup
                                (IF scheme_of(cert.key_type, cert.halg, Indeterminate)
                                      = Indeterminate
                                 THEN {"Unknown key type"} ELSE {})
    /\ UNCHANGED <<tool, stop_rc, sess_vars, opt, hmac_vars, out_saved, nv, evict, cred, iter>>

\* certify_and_save_data, lines 124-134: the certify command.
certify_command ==
    /\ tool = "certify" /\ pc = "tpm2_certify"
    /\ \E r \in CmdRc :
          /\ cmds' = Append(cmds, Cmd("Certify", r, <<0, 255, 85, 170>>))
          /\ IF r # tool_rc_success
             THEN Return(r)
             ELSE pc' = "certify_save" /\ rc' = rc
    /\ \E sent \in (IF cert.scheme = Indeterminate THEN SchemeValues
                                                   ELSE {cert.scheme}) :
          cert' = [cert EXCEPT !.sent = sent]
    /\ UNCHANGED <<tool, stop_rc, sess_vars, opt, hmac_vars, out_saved, logged, nv, evict, cred, iter>>

\* lines 138-140, 143-145: `goto out` returns rc as the certify call left it.
save_failed_rc(certify_rc) == certify_rc

\* certify_and_save_data, lines 135-153: save the attestation, then the signature.
certify_save ==
    /\ tool = "certify" /\ pc = "certify_save"
    /\ LET certify_rc == cmds[Len(cmds)].rc IN
       \/ Return(save_failed_rc(certify_rc)) /\ out_saved' = out_saved
       \/ Return(save_failed_rc(certify_rc)) /\ out_saved' = out_saved \cup {"attest"}
       \/ Return(tool_rc_success) /\ out_saved' = out_saved \cup {"attest", "sig"}
    /\ UNCHANGED <<tool, stop_rc, cmds, sess_vars, opt, hmac_vars, logged, cert, nv, evict, cred, iter>>

\* tpm2_tool_onstop, lines 244-260.
certify_tpm2_tool_onstop ==
    /\ tool = "certify" /\ pc = "onstop"
    /\ \E r1, r2 \in CmdRc :
          LET s1 == tpm2_session_close(SessState, "key", r1)
              s2 == tpm2_session_close(s1, "object", r2)
          IN /\ session' = s2.session /\ closed' = s2.closed /\ cmds' = s2.cmds
             /\ stop_rc' = IF s2.ret # tool_rc_success THEN s2.ret ELSE s1.ret
    /\ pc' = "stopped"
    /\ UNCHANGED <<tool, rc, opened, opt, hmac_vars, out_saved, logged, cert, nv, evict, cred, iter>>

----------------------------------------------------------------------------
(* Module response codes and their conversion (lib/tpm2_error.h). *)

TpmRvals == {"TPM2_RC_SUCCESS", "TPM2_RC_AUTH_FAIL", "TPM2_RC_FAILURE"}

\* tool_rc_from_tpm(rval)
tool_rc_from_tpm(rval) ==
    CASE rval = "TPM2_RC_SUCCESS"   -> tool_rc_success
      [] rval = "TPM2_RC_AUTH_FAIL" -> tool_rc_auth_error
      [] OTHER                      -> tool_rc_general_error

----------------------------------------------------------------------------
(* nvdefine tool: src/tools/tpm2_nvdefine.c *)

\* BUFFER_SIZE(TPM2B_DIGEST, buffer), scaled.
DigestBufferSize == 2

\* files_load_bytes_from_path(path, buf, &size): fails when the file holds
\* more than the capacity passed in *size.
files_load_bytes_fits(file, capacity) == Len(file) <= capacity

\* on_option, case 'x', lines 88-100: the index given with -x is stored; an
\* index of 0 fails the option and ends the run before tpm2_tool_onrun.
\* (That the string converts to the number it denotes is
\* tpm2_util_string_to_uint32, not under src/.)
nvdefine_on_option ==
    /\ tool = "nvdefine" /\ pc = "on_option"
    /\ nv' = [nv EXCEPT !.nvIndex = nv.x_value]
    /\ IF nv.x_value = 0
       THEN pc' = "aborted" /\ logged' = logged \cup {"NV Index cannot be 0"}
       ELSE pc' = "onrun" /\ logged' = logged
    /\ UNCHANGED <<tool, rc, stop_rc, cmds, sess_vars, opt, hmac_vars, out_saved,
                   cert, evict, cred, iter>>

\* tpm2_tool_onrun, lines 155-164: load the authorization hierarchy.
nvdefine_tpm2_tool_onrun ==
    /\ tool = "nvdefine" /\ pc = "onrun"
    /\ \E o \in tpm2_util_object_load_auth(TRUE) :
          /\ Resolve("auth_hierarchy", o)
          /\ IF o.ret # tool_rc_success
             THEN Return(o.ret) /\ logged' = logged \cup {"Invalid authorization"}
             ELSE pc' = "nvdefine_index_auth" /\ rc' = rc /\ logged' = logged
    /\ UNCHANGED <<tool, stop_rc, opt, hmac_vars, out_saved, cert, nv, evict, cred, iter>>

\* Mutant of index_auth_value: the resolved auth value is not copied.
index_auth_value_empty(resolved) == ""

\* lines 175-176: ctx.nvAuth = *tpm2_session_get_auth_value(tmp), the value
\* the temporary session resolved from the index auth string.
index_auth_value(resolved) == resolved

\* tpm2_tool_onrun, lines 167-178: resolve the index auth string through a
\* temporary session, copy its auth value, close the temporary session.
nvdefine_index_auth ==
    /\ tool = "nvdefine" /\ pc = "nvdefine_index_auth"
    /\ \E o \in tpm2_auth_util_from_optarg(TRUE) :
          IF o.ret # tool_rc_success
          THEN /\ Return(o.ret)
               /\ logged' = logged \cup {"Invalid index authorization"}
               /\ UNCHANGED <<cmds, sess_vars, nv>>
          ELSE LET st == [SessState EXCEPT !.session = [session EXCEPT !["tmp"] = o.kind]]
                   s1 == tpm2_session_close(st, "tmp", tool_rc_success)
               IN /\ nv' = [nv EXCEPT !.nvAuth = index_auth_value(nv.index_auth)]
                  /\ session' = s1.session /\ closed' = s1.closed /\ cmds' = s1.cmds
                  /\ opened' = opened
                  /\ pc' = "nv_space_define" /\ rc' = rc /\ logged' = logged
    /\ UNCHANGED <<tool, stop_rc, opt, hmac_vars, out_saved, cert, evict, cred, iter>>

\* lines 75-78: the message logged once define-space answered `r`.
definespace_message(r) ==
    IF r # tool_rc_success THEN {"Success to define NV area"} ELSE {}

\* Mutant of definespace_result: the two branches return each other's value.
definespace_result_swapped(r) ==
    IF r # tool_rc_success THEN tool_rc_success ELSE tool_rc_general_error

\* lines 75-80: what nv_space_define returns once define-space answered `r`.
definespace_result(r) == IF r # tool_rc_success THEN r ELSE tool_rc_success

\* Mutant of nv_data_size: a declared size of 0 is replaced by 1.
nv_data_size_nonzero(size) == IF size = 0 THEN 1 ELSE size

\* line 71: public_info.nvPublic.dataSize = ctx.size.
nv_data_size(size) == size

\* Mutant of auth_policy: the policy file is loaded and dropped.
auth_policy_empty(given, file) == <<>>

\* lines 50, 64-69: the policy digest is empty unless a policy file is given,
\* and then holds what files_load_bytes_from_path loaded: the file's bytes.
auth_policy(given, file) == IF given THEN file ELSE <<>>

\* nv_space_define, lines 48-81.
nv_space_define ==
    /\ tool = "nvdefine" /\ pc = "nv_space_define"
    /\ LET warn == IF nv.size = 0 THEN {"Defining an index with size 0"} ELSE {}
           policy_ok == (~opt.L) \/ files_load_bytes_fits(nv.policy_file, DigestBufferSize)
           public_info == [nvIndex    |-> nv.nvIndex,
                           nameAlg    |-> "TPM2_ALG_SHA256",
                           authPolicy |-> auth_policy(opt.L, nv.policy_file),
                           dataSize   |-> nv_data_size(nv.size)]
       IN \/ /\ opt.L
             \* the policy file is too large, or reading it fails
             /\ Return(tool_rc_general_error)
             /\ logged' = logged \cup warn
             /\ UNCHANGED <<cmds, nv>>
          \/ /\ policy_ok
             /\ \E r \in CmdRc :
                   /\ cmds' = Append(cmds, Cmd("NV_DefineSpace", r, <<>>))
                   /\ Return(definespace_result(r))
                   /\ logged' = logged \cup warn \cup definespace_message(r)
             /\ nv' = [nv EXCEPT !.public_info = public_info, !.sent_auth = nv.nvAuth]
    /\ UNCHANGED <<tool, stop_rc, sess_vars, opt, hmac_vars, out_saved, cert, evict, cred, iter>>

\* tpm2_tool_onstop, lines 185-188.
nvdefine_tpm2_tool_onstop ==
    /\ tool = "nvdefine" /\ pc = "onstop"
    /\ \E r \in CmdRc :
          LET s1 == tpm2_session_close(SessState, "auth_hierarchy", r) IN
          /\ session' = s1.session /\ closed' = s1.closed /\ cmds' = s1.cmds
          /\ stop_rc' = s1.ret
    /\ pc' = "stopped"
    /\ UNCHANGED <<tool, rc, opened, opt, hmac_vars, out_saved, logged, cert, nv, evict, cred, iter>>

----------------------------------------------------------------------------
(* evictcontrol: src/lib/tpm2.h lines 373..409 *)

\* tpm2_auth_util_get_shandle(ectx, object, session, &shandle): hands back the
\* session handle to authorize with, or fails; it issues no module command.
tpm2_auth_util_get_shandle == CmdRc

\* tpm2_session_get_handle(session), and the handle tpm2_auth_util_get_shandle
\* stores on success: the handle of a session started on the module (named
\* here after the pointer that holds it), ESYS_TR_PASSWORD otherwise.
tpm2_session_get_handle(slot) ==
    IF session[slot] = "open" THEN slot ELSE "ESYS_TR_PASSWORD"

\* Mutant of close_out_handle: the new handle is closed in every case.
close_out_handle_always(out_tr_given) == TRUE

\* lines 403-408: the new handle is closed here unless the caller takes it.
close_out_handle(out_tr_given) == ~out_tr_given

\* tpm2_ctx_mgmt_evictcontrol, lines 373-409.
tpm2_ctx_mgmt_evictcontrol ==
    /\ tool = "evictcontrol" /\ pc = "onrun"
    /\ \E g \in tpm2_auth_util_get_shandle :
          IF g # tool_rc_success
          THEN /\ rc' = g
               /\ UNCHANGED <<cmds, evict>>
          ELSE \E rval \in TpmRvals :
                  /\ IF rval # "TPM2_RC_SUCCESS"
                     THEN /\ rc' = tool_rc_from_tpm(rval)
                          /\ cmds' = Append(cmds,
                                 Cmd("EvictControl", tool_rc_from_tpm(rval), <<>>))
                          /\ evict' = evict
                     ELSE IF ~close_out_handle(evict.out_tr_given)
                          THEN /\ rc' = tool_rc_success
                               /\ cmds' = Append(cmds,
                                      Cmd("EvictControl", tool_rc_success, <<>>))
                               /\ evict' = [evict EXCEPT !.out_tr = "outHandle",
                                                         !.handle = "live"]
                          ELSE \E c \in CmdRc :
                                  /\ rc' = c
                                  /\ cmds' = cmds \o
                                       <<Cmd("EvictControl", tool_rc_success, <<>>),
                                         CmdOn("TR_Close", c, "outHandle")>>
                                  /\ evict' = [evict EXCEPT !.handle = "closed",
                                                            !.closes = @ + 1]
    /\ pc' = "stopped"
    /\ UNCHANGED <<tool, stop_rc, sess_vars, opt, hmac_vars, out_saved, logged, cert, nv, cred, iter>>

----------------------------------------------------------------------------
(* activatecredential tool: src/lib/tpm2.h lines 411..725 *)

\* Capacities of cred->credential and secret->secret, scaled down.
CredentialCapacity == 2
SecretCapacity == 2

\* Big-endian integers of the wire format.
be16(b) == b[1] * 256 + b[2]
be32(b) == ((b[1] * 256 + b[2]) * 256 + b[3]) * 256 + b[4]
enc16(n) == <<(n \div 256) % 256, n % 256>>
enc32(n) == <<(n \div 16777216) % 256, (n \div 65536) % 256,
              (n \div 256) % 256, n % 256>>

\* files_read_header / files_read_16 / files_read_bytes (lib/files.h) on the
\* bytes `b` of a stream positioned at `at`: a short stream fails the read.
files_read_header(b, at) ==
    IF at + 4 <= Len(b)
    THEN [ok |-> TRUE, value |-> be32(Slice(b, at, 4)), at |-> at + 4]
    ELSE [ok |-> FALSE, value |-> 0, at |-> Len(b)]

files_read_16(b, at) ==
    IF at + 2 <= Len(b)
    THEN [ok |-> TRUE, value |-> be16(Slice(b, at, 2)), at |-> at + 2]
    ELSE [ok |-> FALSE, value |-> 0, at |-> Len(b)]

files_read_bytes(b, at, size) ==
    IF at + size <= Len(b)
    THEN [ok |-> TRUE, value |-> Slice(b, at, size), at |-> at + size]
    ELSE [ok |-> FALSE, value |-> Slice(b, at, Len(b) - at), at |-> Len(b)]

\* What read_cert_secret leaves when nothing of the file was read.
NothingRead == [result |-> FALSE, version |-> -1, credential |-> <<>>,
                secret |-> <<>>, read |-> {}]

\* read_cert_secret, lines 476-529.  `result` is the C local of that name:
\* every exit after fopen returns it as the last helper call left it.  At the
\* version check (lines 494-498) it still holds files_read_header's answer.
\* `read` names the fields a read was attempted on; the bytes read are kept
\* whole, the code handing files_read_bytes the size found in the file.
read_cert_secret(f) ==
    IF ~f.exists THEN NothingRead
    ELSE LET h == files_read_header(f.bytes, 0)
             r0 == [NothingRead EXCEPT !.result = h.ok, !.read = {"version"}]
         IN
    IF ~h.ok THEN r0
    ELSE LET r1 == [r0 EXCEPT !.version = h.value] IN
    IF h.value # 1 THEN r1
    ELSE LET cs == files_read_16(f.bytes, h.at)
             r2 == [r1 EXCEPT !.result = cs.ok, !.read = @ \cup {"credential.size"}]
         IN
    IF ~cs.ok THEN r2
    ELSE LET cb == files_read_bytes(f.bytes, cs.at, cs.value)
             r3 == [r2 EXCEPT !.result = cb.ok, !.credential = cb.value,
                              !.read = @ \cup {"credential"}]
         IN
    IF ~cb.ok THEN r3
    ELSE LET ss == files_read_16(f.bytes, cb.at)
             r4 == [r3 EXCEPT !.result = ss.ok, !.read = @ \cup {"secret.size"}]
         IN
    IF ~ss.ok THEN r4
    ELSE LET sb == files_read_bytes(f.bytes, ss.at, ss.value)
             r5 == [r4 EXCEPT !.result = sb.ok, !.secret = sb.value,
                              !.read = @ \cup {"secret"}]
         IN
    IF ~sb.ok THEN r5
    ELSE [r5 EXCEPT !.result = TRUE]

NoFile == [exists |-> FALSE, bytes |-> <<>>]

\* lines 506, 518: files_read_bytes is handed the size found in the file and
\* a buffer of fixed capacity; more bytes than the capacity are written past
\* the end of the buffer.
writes_past_buffer(r) ==
    \/ Len(r.credential) > CredentialCapacity
    \/ Len(r.secret) > SecretCapacity

\* on_option, case 'i', lines 633-641: the flag is set when read_cert_secret
\* answers true; a false answer ends the run before tpm2_tool_onrun.  The
\* stream is closed on the way out of read_cert_secret.  After a write past
\* a buffer the behaviour is undefined: the run may go on or end there.
activatecredential_on_option ==
    /\ tool = "activatecredential" /\ pc = "on_option"
    /\ LET r == read_cert_secret(cred.file) IN
       /\ cred' = [cred EXCEPT !.file = NoFile, !.version = r.version,
                               !.credentialBlob = r.credential,
                               !.secret = r.secret, !.read = r.read]
       /\ \E goes_on \in (IF writes_past_buffer(r) THEN BOOLEAN ELSE {TRUE}) :
             /\ opt' = [opt EXCEPT !.i = r.result /\ goes_on]
             /\ pc' = IF r.result /\ goes_on THEN "onrun" ELSE "aborted"
    /\ UNCHANGED <<tool, rc, stop_rc, cmds, sess_vars, hmac_vars, out_saved, logged,
                   cert, nv, evict, iter>>

\* lines 673-678: the test for missing options.
activatecredential_option_error(o) == (~o.c) /\ (~o.C) /\ (~o.i) /\ (~o.o)

\* tpm2_tool_onrun, lines 668-684: option check, load of the credentialed key.
activatecredential_tpm2_tool_onrun ==
    /\ tool = "activatecredential" /\ pc = "onrun"
    /\ IF activatecredential_option_error(opt)
       THEN /\ Return(tool_rc_option_error)
            /\ logged' = logged \cup {"Expected options c and C and i and o."}
            /\ cmds' = cmds
       ELSE /\ \E o \in tpm2_util_object_load(opt.c) :
                 /\ cmds' = cmds \o o.log
                 /\ IF o.ret # tool_rc_success
                    THEN Return(o.ret)
                    ELSE pc' = "ac_load_credential_key" /\ rc' = rc
            /\ logged' = logged
    /\ UNCHANGED <<tool, stop_rc, sess_vars, opt, hmac_vars, out_saved, cert, nv, evict, cred, iter>>

\* tpm2_tool_onrun, lines 686-690: load of the credential key.
activatecredential_load_credential_key ==
    /\ tool = "activatecredential" /\ pc = "ac_load_credential_key"
    /\ \E o \in tpm2_util_object_load(opt.C) :
          /\ cmds' = cmds \o o.log
          /\ IF o.ret # tool_rc_success
             THEN Return(o.ret)
             ELSE pc' = "ac_auth_key" /\ rc' = rc
    /\ UNCHANGED <<tool, stop_rc, sess_vars, opt, hmac_vars, out_saved, logged,
                   cert, nv, evict, cred, iter>>

\* tpm2_tool_onrun, lines 692-697: authorization of the credentialed key.
activatecredential_auth_key ==
    /\ tool = "activatecredential" /\ pc = "ac_auth_key"
    /\ \E o \in tpm2_auth_util_from_optarg(FALSE) :
          /\ Resolve("credentialed_key", o)
          /\ IF o.ret # tool_rc_success
             THEN /\ Return(o.ret)
                  /\ logged' = logged \cup {"Invalid activateHandle authorization"}
             ELSE pc' = "ac_auth_credential_key" /\ rc' = rc /\ logged' = logged
    /\ UNCHANGED <<tool, stop_rc, opt, hmac_vars, out_saved, cert, nv, evict, cred, iter>>

\* tpm2_tool_onrun, lines 699-706: authorization of the credential key.
activatecredential_auth_credential_key ==
    /\ tool = "activatecredential" /\ pc = "ac_auth_credential_key"
    /\ \E o \in tpm2_auth_util_from_optarg(TRUE) :
          /\ Resolve("credential_key", o)
          /\ IF o.ret # tool_rc_success
             THEN /\ Return(o.ret)
                  /\ logged' = logged \cup {"Invalid keyHandle authorization"}
             ELSE pc' = "activate_credential_and_output" /\ rc' = rc
                  /\ logged' = logged
    /\ UNCHANGED <<tool, stop_rc, opt, hmac_vars, out_saved, cert, nv, evict, cred, iter>>

\* Mutant of out_session: the exit returns without closing the policy session.
out_session_skipped(st, r) == [st EXCEPT !.ret = tool_rc_success]

\* lines 568-571, 576-580, 586-589, 595-599, 602-604: every exit taken after
\* the policy session was opened goes through out_session, which closes it.
out_session(st, r) == tpm2_session_close(st, "policy", r)

\* Leaving activate_credential_and_output with `ret` through out_session.
LeaveThroughOutSession(log, ret) ==
    \E c \in CmdRc :
       LET s1 == out_session([SessState EXCEPT !.cmds = log], c) IN
       /\ session' = s1.session /\ closed' = s1.closed /\ cmds' = s1.cmds
       /\ Return(ret)

\* activate_credential_and_output, lines 546-560: allocate the session data
\* and open the policy session.
activate_credential_and_output_open ==
    /\ tool = "activatecredential" /\ pc = "activate_credential_and_output"
    /\ \/ \* tpm2_session_data_new returned NULL
          /\ Return(BoolAsRc(FALSE))
          /\ logged' = logged \cup {"oom"}
          /\ UNCHANGED <<cmds, sess_vars>>
       \/ /\ \E r \in CmdRc :
                /\ cmds' = Append(cmds, CmdOn("StartAuthSession", r, "policy"))
                /\ IF r # tool_rc_success
                   THEN Return(r) /\ UNCHANGED <<session, opened>>
                   ELSE /\ session' = [session EXCEPT !["policy"] = "open"]
                        /\ opened' = [opened EXCEPT !["policy"] = @ + 1]
                        /\ pc' = "ac_policy_secret" /\ rc' = rc
          /\ closed' = closed
          /\ logged' = logged
    /\ UNCHANGED <<tool, stop_rc, opt, hmac_vars, out_saved, cert, nv, evict, cred, iter>>

\* lines 573-575: Esys_PolicySecret(ectx, authHandle, policySession, shandle1, ..).
policy_secret_args(sess_handle, credential_key_shandle) ==
    <<"ESYS_TR_RH_ENDORSEMENT", sess_handle, credential_key_shandle>>

\* Mutant of activate_credential_args: the two authorizations change places.
activate_credential_args_swapped(key_shandle, sess_handle) ==
    <<"credentialed_key_obj", "credential_key_obj", sess_handle, key_shandle>>

\* lines 591-594: Esys_ActivateCredential(ectx, activateHandle, keyHandle,
\* shandle1, shandle2, ..).
activate_credential_args(key_shandle, sess_handle) ==
    <<"credentialed_key_obj", "credential_key_obj", key_shandle, sess_handle>>

\* activate_credential_and_output, lines 562-580: PolicySecret on the policy
\* session, authorized against the endorsement hierarchy.
activate_credential_and_output_policy_secret ==
    /\ tool = "activatecredential" /\ pc = "ac_policy_secret"
    /\ \E g \in tpm2_auth_util_get_shandle :
          IF g # tool_rc_success
          THEN LeaveThroughOutSession(cmds, g)
          ELSE \E rval \in TpmRvals :
                  LET log == Append(cmds, CmdArgs("PolicySecret", tool_rc_from_tpm(rval),
                                       policy_secret_args(
                                          tpm2_session_get_handle("policy"),
                                          tpm2_session_get_handle("credential_key"))))
                  IN IF rval # "TPM2_RC_SUCCESS"
                     THEN LeaveThroughOutSession(log, tool_rc_from_tpm(rval))
                     ELSE /\ cmds' = log
                          /\ pc' = "ac_activate" /\ rc' = rc
                          /\ UNCHANGED <<session, closed>>
    /\ UNCHANGED <<tool, stop_rc, opened, opt, hmac_vars, out_saved, logged,
                   cert, nv, evict, cred, iter>>

\* activate_credential_and_output, lines 582-599: ActivateCredential.
activate_credential_and_output_activate ==
    /\ tool = "activatecredential" /\ pc = "ac_activate"
    /\ \E g \in tpm2_auth_util_get_shandle :
          IF g # tool_rc_success
          THEN LeaveThroughOutSession(cmds, g)
          ELSE \E rval \in TpmRvals :
                  LET log == Append(cmds, CmdArgs("ActivateCredential",
                                       tool_rc_from_tpm(rval),
                                       activate_credential_args(
                                          tpm2_session_get_handle("credentialed_key"),
                                          tpm2_session_get_handle("policy"))))
                  IN IF rval # "TPM2_RC_SUCCESS"
                     THEN LeaveThroughOutSession(log, tool_rc_from_tpm(rval))
                     ELSE /\ cmds' = log
                          /\ pc' = "ac_output_and_save" /\ rc' = rc
                          /\ UNCHANGED <<session, closed>>
    /\ UNCHANGED <<tool, stop_rc, opened, opt, hmac_vars, out_saved, logged,
                   cert, nv, evict, cred, iter>>

\* activate_credential_and_output, lines 601-613: print and save the
\* certificate info, close the policy session.
activate_credential_and_output_save ==
    /\ tool = "activatecredential" /\ pc = "ac_output_and_save"
    /\ \/ LeaveThroughOutSession(cmds, tool_rc_general_error) /\ out_saved' = out_saved
       \/ /\ LeaveThroughOutSession(cmds, tool_rc_success)
          /\ out_saved' = out_saved \cup {"certinfo"}
    /\ UNCHANGED <<tool, stop_rc, opened, opt, hmac_vars, logged, cert, nv, evict, cred, iter>>

\* tpm2_tool_onstop, lines 709-725.
activatecredential_tpm2_tool_onstop ==
    /\ tool = "activatecredential" /\ pc = "onstop"
    /\ \E r1, r2 \in CmdRc :
          LET s1 == tpm2_session_close(SessState, "credentialed_key", r1)
              s2 == tpm2_session_close(s1, "credential_key", r2)
          IN /\ session' = s2.session /\ closed' = s2.closed /\ cmds' = s2.cmds
             /\ stop_rc' = IF s2.ret # tool_rc_success THEN s2.ret ELSE s1.ret
    /\ pc' = "stopped"
    /\ UNCHANGED <<tool, rc, opened, opt, hmac_vars, out_saved, logged, cert, nv, evict, cred, iter>>

----------------------------------------------------------------------------
(* The run *)

NoOpt == [C |-> FALSE, c |-> FALSE, g |-> FALSE, o |-> FALSE, s |-> FALSE,
          i |-> FALSE, L |-> FALSE]

NoCert == [key_type |-> "TPM2_ALG_NULL", halg |-> "TPM2_ALG_ERROR",
           scheme |-> Indeterminate, sent |-> Indeterminate]

NoNv == [x_given |-> FALSE, x_value |-> 0, nvIndex |-> 0, size |-> 0, policy_file |-> <<>>, index_auth |-> "",
         nvAuth |-> "", public_info |-> <<>>, sent_auth |-> ""]

NoEvict == [out_tr_given |-> FALSE, out_tr |-> "unset", handle |-> "none", closes |-> 0]

NoCred == [given |-> FALSE, file |-> NoFile, version |-> -1,
           credentialBlob |-> <<>>, secret |-> <<>>, read |-> {}]

\* Credential files: every version in Versions with every credential and
\* secret length up to one past the capacity, whole and cut short at every
\* byte; and a path that cannot be opened.
Versions == {0, 1, 2, 257}
EncodeCredFile(v, c, s) == enc32(v) \o enc16(Len(c)) \o c \o enc16(Len(s)) \o s
WholeCredFiles ==
    {EncodeCredFile(v, [i \in 1..n |-> i], [i \in 1..m |-> 100 + i]) :
        v \in Versions, n \in 0..(CredentialCapacity + 1), m \in 0..(SecretCapacity + 1)}
CredFiles ==
    {NoFile} \cup UNION {{[exists |-> TRUE, bytes |-> SubSeq(w, 1, k)] : k \in 0..Len(w)} :
                          w \in WholeCredFiles}

\* What the tool-independent variables hold when tpm2_tool_onrun is entered.
InitCommon ==
    /\ iter = 0
    /\ rc = tool_rc_success
    /\ stop_rc = tool_rc_success
    /\ cmds = <<>>
    /\ session = [s \in Slots |-> "null"]
    /\ opened = [s \in Slots |-> 0]
    /\ closed = [s \in Slots |-> 0]
    /\ pos = 0
    /\ left = 0
    /\ wrapped = FALSE
    /\ sequence_handle = "none"
    /\ seq_released = 0
    /\ out_saved = {}
    /\ logged = {}

\* certify: options as on_option (lines 156-197) leaves them.
InitCertify ==
    /\ tool = "certify"
    /\ pc = "onrun" /\ cred = NoCred
    /\ opt \in {o \in [C : BOOLEAN, c : BOOLEAN, g : BOOLEAN, o : BOOLEAN,
                       s : BOOLEAN, i : {FALSE}, L : {FALSE}] : TRUE}
    /\ \E t \in KeyTypes, h \in HashAlgs :
          cert = [NoCert EXCEPT !.key_type = t,
                                !.halg = IF opt.g THEN h ELSE "TPM2_ALG_ERROR"]
    /\ input = <<>> /\ res = FALSE /\ file_size = 0
    /\ nv = NoNv /\ evict = NoEvict

\* hmac: options (lines 428-460) and the input stream; the reported size of
\* a regular file is its length, a fifo reports none.
InitHmac ==
    /\ tool = "hmac"
    /\ pc = "onrun" /\ cred = NoCred
    /\ opt \in {o \in [C : BOOLEAN, c : {FALSE}, g : {FALSE}, o : BOOLEAN,
                       s : {FALSE}, i : {FALSE}, L : {FALSE}] : TRUE}
    /\ input \in Inputs
    /\ res \in BOOLEAN
    /\ file_size = IF res THEN Len(input) ELSE 0
    /\ cert = NoCert /\ nv = NoNv /\ evict = NoEvict

\* nvdefine: tpm_nvdefine_ctx as on_option (lines 83-135) leaves it, the -x
\* option still to be handled; without -x the index is the 0 of the static
\* initializer (lines 40-46).
InitNvdefine ==
    /\ tool = "nvdefine"
    /\ cred = NoCred
    /\ opt \in {o \in [C : {FALSE}, c : {FALSE}, g : {FALSE}, o : {FALSE},
                       s : {FALSE}, i : {FALSE}, L : BOOLEAN] : TRUE}
    /\ \E xg \in BOOLEAN, x \in {0, 1}, sz \in {0, 1}, a \in {"", "pw"},
          f \in SeqsUpTo(Byte, DigestBufferSize + 1) :
          /\ nv = [NoNv EXCEPT !.x_given = xg, !.x_value = IF xg THEN x ELSE 0,
                               !.size = sz, !.index_auth = a,
                               !.policy_file = IF opt.L THEN f ELSE <<>>]
          /\ pc = IF xg THEN "on_option" ELSE "onrun"
    /\ input = <<>> /\ res = FALSE /\ file_size = 0
    /\ cert = NoCert /\ evict = NoEvict

\* activatecredential: options as on_option (lines 616-649) leaves them, the
\* -i file still to be read.
InitActivatecredential ==
    /\ tool = "activatecredential"
    /\ opt \in {o \in [C : BOOLEAN, c : BOOLEAN, g : {FALSE}, o : BOOLEAN,
                       s : {FALSE}, i : {FALSE}, L : {FALSE}] : TRUE}
    /\ \/ pc = "onrun" /\ cred = NoCred
       \/ /\ pc = "on_option"
          /\ \E f \in CredFiles : cred = [NoCred EXCEPT !.given = TRUE, !.file = f]
    /\ input = <<>> /\ res = FALSE /\ file_size = 0
    /\ cert = NoCert /\ nv = NoNv /\ evict = NoEvict

InitEvictcontrol ==
    /\ tool = "evictcontrol"
    /\ pc = "onrun" /\ cred = NoCred
    /\ opt = NoOpt
    /\ evict \in {[NoEvict EXCEPT !.out_tr_given = b] : b \in BOOLEAN}
    /\ input = <<>> /\ res = FALSE /\ file_size = 0
    /\ cert = NoCert /\ nv = NoNv

Init ==
    /\ InitCommon
    /\ \/ InitCertify
       \/ InitHmac
       \/ InitNvdefine
       \/ InitActivatecredential
       \/ InitEvictcontrol

Next ==
    \/ certify_tpm2_tool_onrun
    \/ certify_load_key
    \/ certify_set_scheme
    \/ certify_command
    \/ certify_save
    \/ certify_tpm2_tool_onstop
    \/ hmac_tpm2_tool_onrun
    \/ tpm_hmac_file_single
    \/ tpm_hmac_file_start
    \/ tpm_hmac_file_loop
    \/ tpm_hmac_file_complete
    \/ do_hmac_and_output
    \/ hmac_tpm2_tool_onstop
    \/ nvdefine_on_option
    \/ nvdefine_tpm2_tool_onrun
    \/ nvdefine_index_auth
    \/ nv_space_define
    \/ nvdefine_tpm2_tool_onstop
    \/ tpm2_ctx_mgmt_evictcontrol
    \/ activatecredential_on_option
    \/ activatecredential_tpm2_tool_onrun
    \/ activatecredential_load_credential_key
    \/ activatecredential_auth_key
    \/ activatecredential_auth_credential_key
    \/ activate_credential_and_output_open
    \/ activate_credential_and_output_policy_secret
    \/ activate_credential_and_output_activate
    \/ activate_credential_and_output_save
    \/ activatecredential_tpm2_tool_onstop

Spec == Init /\ [][Next]_vars

\* hmac on an input whose reported size need not be its length: the file
\* shrank or grew after files_get_file_size, or the size is simply wrong.
InitUnstable ==
    /\ InitCommon
    /\ tool = "hmac"
    /\ pc = "onrun" /\ cred = NoCred
    /\ opt \in {o \in [C : BOOLEAN, c : {FALSE}, g : {FALSE}, o : BOOLEAN,
                       s : {FALSE}, i : {FALSE}, L : {FALSE}] : TRUE}
    /\ input \in Inputs
    /\ res \in BOOLEAN
    /\ file_size \in (IF res THEN 0..MaxInputLen ELSE {0})
    /\ cert = NoCert /\ nv = NoNv /\ evict = NoEvict

NextUnstable ==
    \/ hmac_tpm2_tool_onrun
    \/ tpm_hmac_file_single
    \/ tpm_hmac_file_start
    \/ tpm_hmac_file_loop
    \/ tpm_hmac_file_complete
    \/ do_hmac_and_output
    \/ hmac_tpm2_tool_onstop

\* The tool is a sequential program that keeps running: a step that can be
\* taken is taken.
SpecUnstable == InitUnstable /\ [][NextUnstable]_vars /\ WF_vars(NextUnstable)

----------------------------------------------------------------------------
(* Vocabulary of the properties *)

OnrunReturned == pc \in {"onstop", "stopped"}

Issued(name) == \E i \in 1..Len(cmds) : cmds[i].cmd = name
Succeeded(name) ==
    \E i \in 1..Len(cmds) : cmds[i].cmd = name /\ cmds[i].rc = tool_rc_success
Failed(name) ==
    \E i \in 1..Len(cmds) : cmds[i].cmd = name /\ cmds[i].rc # tool_rc_success

\* Commands that only release a session or a handle.
ReleaseCmds == {"FlushContext", "TR_Close"}

\* tpm_hmac_file returned tool_rc_success.
TpmHmacFileSucceeded ==
    /\ tool = "hmac"
    /\ \/ pc = "do_hmac_and_output"
       \/ OnrunReturned /\ (Succeeded("HMAC") \/ Succeeded("SequenceComplete"))

HmacData == {"HMAC", "SequenceUpdate", "SequenceComplete"}

IsPrefix(a, b) == Len(a) <= Len(b) /\ a = [i \in 1..Len(a) |-> b[i]]

----------------------------------------------------------------------------
(* Properties *)

\* C1: when the signing key's type read from the module is not RSA, KEYEDHASH
\* or ECC (SYMCIPHER included), no certify command is issued and
\* certify_and_save_data returns a non-success code.
\* The code violates it: set_scheme returns `false`, which is tool_rc_success.
C1_UnsupportedKeyTypeFails ==
    (/\ tool = "certify"
     /\ Succeeded("ReadPublic")
     /\ cert.key_type \notin {"TPM2_ALG_RSA", "TPM2_ALG_KEYEDHASH", "TPM2_ALG_ECC"})
    => /\ ~Issued("Certify")
       /\ OnrunReturned => rc # tool_rc_success

\* C2: in the certify, hmac, nvdefine and activatecredential tools, once onrun
\* and onstop have run -- whatever onrun returned -- every session started
\* on the module has been flushed exactly once and no session pointer is
\* left open; the policy session of activate_credential_and_output is
\* already closed when that function returns.
C2_SessionsReleased ==
    tool \in {"certify", "hmac", "nvdefine", "activatecredential"} =>
      /\ \A s \in Slots : closed[s] <= opened[s] /\ opened[s] <= 1
      /\ pc = "stopped" =>
            \A s \in Slots : session[s] # "open" /\ closed[s] = opened[s]
      /\ OnrunReturned =>
            session["policy"] # "open" /\ closed["policy"] = opened["policy"]

\* C2 witness: activatecredential failed at a module command after the
\* policy session and the credentialed key's session were started.
C2_Witness ==
    /\ tool = "activatecredential" /\ pc = "stopped"
    /\ rc # tool_rc_success
    /\ Failed("PolicySecret")
    /\ opened["policy"] = 1 /\ opened["credentialed_key"] = 1

\* C3: every sequence handle obtained from a successful hmac-start has been
\* released exactly once (consumed by sequence-complete, or flushed) when
\* tpm_hmac_file has returned, early returns included.
\* The code violates it: the early returns leave the handle live.
C3_SequenceHandleReleased ==
    (tool = "hmac" /\ OnrunReturned /\ Succeeded("HMAC_Start"))
    => /\ seq_released = 1
       /\ sequence_handle \in {"consumed", "flushed"}

\* C4: the data handed to the module by tpm_hmac_file -- the hmac call's
\* buffer, or the sequence-update buffers in order followed by the
\* sequence-complete buffer -- is at every moment a prefix of the input and,
\* once tpm_hmac_file has returned success, the input exactly.
C4_DataEqualsInput ==
    tool = "hmac" =>
      /\ IsPrefix(DataOf(cmds, HmacData), input)
      /\ TpmHmacFileSucceeded => DataOf(cmds, HmacData) = input

\* C4 witness: a streamed input of known size with a trailing partial chunk.
C4_Witness ==
    /\ TpmHmacFileSucceeded /\ pc = "stopped"
    /\ res /\ Len(input) = 3 * TPM2_MAX_DIGEST_BUFFER + 1
    /\ Count({"SequenceUpdate"}) >= 2
    /\ Succeeded("SequenceComplete")

\* C5: tpm_hmac_file takes the single-shot path exactly when the size is
\* known and at most TPM2_MAX_DIGEST_BUFFER: then it never issues a sequence
\* command and, returning success, has issued exactly one hmac call;
\* otherwise it never issues the hmac call, at most one start and one
\* complete and, returning success, exactly one start, one or more updates
\* and exactly one complete.
C5_PathChoice ==
    tool = "hmac" =>
      IF res /\ Len(input) <= TPM2_MAX_DIGEST_BUFFER
      THEN /\ Count({"HMAC_Start", "SequenceUpdate", "SequenceComplete"}) = 0
           /\ Count({"HMAC"}) <= 1
           /\ TpmHmacFileSucceeded => Count({"HMAC"}) = 1
      ELSE /\ Count({"HMAC"}) = 0
           /\ Count({"HMAC_Start"}) <= 1
           /\ Count({"SequenceComplete"}) <= 1
           /\ TpmHmacFileSucceeded =>
                 /\ Count({"HMAC_Start"}) = 1
                 /\ Count({"SequenceUpdate"}) >= 1
                 /\ Count({"SequenceComplete"}) = 1

\* C5 witness: an input of exactly the buffer maximum went through one hmac call.
C5_Witness ==
    /\ TpmHmacFileSucceeded /\ pc = "stopped"
    /\ res /\ Len(input) = TPM2_MAX_DIGEST_BUFFER
    /\ Count({"HMAC"}) = 1

\* C6: every buffer handed to hmac, sequence-update and sequence-complete
\* holds at most TPM2_MAX_DIGEST_BUFFER bytes, and the remaining-bytes
\* counter never wraps below zero.
C6_BufferBound ==
    tool = "hmac" =>
      /\ \A i \in 1..Len(cmds) : Len(cmds[i].data) <= TPM2_MAX_DIGEST_BUFFER
      /\ ~wrapped
      /\ left <= Len(input)

\* C6 witness: a known-size stream where the counter was decremented twice
\* and the final chunk is a full buffer.
C6_Witness ==
    /\ tool = "hmac" /\ res /\ Len(input) = 3 * TPM2_MAX_DIGEST_BUFFER
    /\ left = TPM2_MAX_DIGEST_BUFFER
    /\ \E i \in 1..Len(cmds) :
          cmds[i].cmd = "SequenceComplete" /\ Len(cmds[i].data) = TPM2_MAX_DIGEST_BUFFER

\* The buffer of the sequence-complete call.
CompleteData == DataOf(cmds, {"SequenceComplete"})

\* C7 as claimed: in the streaming path the last bytes of the input are
\* carried by the complete call's buffer, which is empty only when the input
\* length is an exact multiple of the chunk size.
\* The code violates it when the size is unknown.
C7_FinalChunkToComplete ==
    (TpmHmacFileSucceeded /\ Issued("SequenceComplete")) =>
      /\ DataOf(cmds, {"SequenceUpdate"}) \o CompleteData = input
      /\ CompleteData = <<>> => Len(input) % TPM2_MAX_DIGEST_BUFFER = 0

\* C7 amended: with a known size the final chunk -- the last 1 to
\* TPM2_MAX_DIGEST_BUFFER bytes of the input -- is handed to sequence-complete
\* and not to sequence-update, and the complete buffer is never empty; with
\* an unknown size every input byte is handed to sequence-update and the
\* complete buffer is empty whatever the input length.
C7_FinalChunkKnownSize ==
    (TpmHmacFileSucceeded /\ Issued("SequenceComplete")) =>
      /\ DataOf(cmds, {"SequenceUpdate"}) \o CompleteData = input
      /\ IF res
         THEN /\ Len(CompleteData) >= 1
              /\ Len(CompleteData) <= TPM2_MAX_DIGEST_BUFFER
              /\ \A i \in 1..Len(cmds) :
                    cmds[i].cmd = "SequenceUpdate" =>
                       Len(cmds[i].data) = TPM2_MAX_DIGEST_BUFFER
         ELSE CompleteData = <<>>

\* C7 witness: an unknown-size stream whose length is no multiple of the
\* chunk size was completed with an empty buffer.
C7_Witness ==
    /\ TpmHmacFileSucceeded /\ Succeeded("SequenceComplete")
    /\ ~res /\ Len(input) % TPM2_MAX_DIGEST_BUFFER # 0
    /\ CompleteData = <<>>

\* C8: when a module command (other than a release) reported a non-success
\* status, the code onrun returns is that command's code.
\* The code violates it: tpm_hmac_file returns tool_rc_general_error
\* whatever hmac start, sequence-update or sequence-complete reported.
C8_FailureCodeSurfaced ==
    (OnrunReturned \/ (tool = "evictcontrol" /\ pc = "stopped")) =>
      \A i \in 1..Len(cmds) :
         (cmds[i].cmd \notin ReleaseCmds /\ cmds[i].rc # tool_rc_success)
            => rc = cmds[i].rc

\* C9: once a module command reported a non-success status, every command
\* issued after it is a session close or handle release: the failed command
\* is not retried and the flow issues no further protocol command.
C9_NoCommandAfterFailure ==
    \A i, j \in 1..Len(cmds) :
       (i < j /\ cmds[i].rc # tool_rc_success) => cmds[j].cmd \in ReleaseCmds

\* C9 witness: sequence-update failed after an earlier update succeeded, and
\* onstop then flushed the key's session.
C9_Witness ==
    /\ tool = "hmac" /\ pc = "stopped"
    /\ Failed("SequenceUpdate") /\ Succeeded("SequenceUpdate")
    /\ cmds[Len(cmds)].cmd = "FlushContext"

\* C10: onrun returns success only if the flow's output was persisted:
\* certify only if the certify command succeeded and both the attestation
\* and the signature were saved, hmac (with an output file) only if the
\* digest was saved, activatecredential only if the certificate info was saved.
\* The code violates it: certify_and_save_data returns the certify call's
\* success when a save fails.
C10_AllOrNothing ==
    (OnrunReturned /\ rc = tool_rc_success) =>
      /\ tool = "certify" =>
            Succeeded("Certify") /\ {"attest", "sig"} \subseteq out_saved
      /\ (tool = "hmac" /\ opt.o) => "hmac" \in out_saved
      /\ tool = "activatecredential" => "certinfo" \in out_saved

\* Positions in the log of the commands named `c` that succeeded.
SucceededAt(c) == {i \in 1..Len(cmds) : cmds[i].cmd = c /\ cmds[i].rc = tool_rc_success}

\* The opening of the policy session in the log.
PolicyOpenAt == {i \in 1..Len(cmds) : cmds[i].cmd = "StartAuthSession"
                                       /\ cmds[i].arg = "policy"}

\* The authorization presented for the credentialed key: the handle of the
\* session its auth string started on the module, or the password sentinel.
CredentialedKeyAuth ==
    IF opened["credentialed_key"] > 0 THEN "credentialed_key" ELSE "ESYS_TR_PASSWORD"

\* C11: in the activation flow PolicySecret is issued only after the policy
\* session was opened successfully, on that session and with the endorsement
\* hierarchy as auth handle; ActivateCredential is issued only after a
\* successful PolicySecret, with the credentialed key's own authorization in
\* the first slot and the policy session in the second.
C11_ActivationOrder ==
    tool = "activatecredential" =>
       /\ \A i \in 1..Len(cmds) : cmds[i].cmd = "PolicySecret" =>
             /\ \E j \in PolicyOpenAt \cap SucceededAt("StartAuthSession") : j < i
             /\ cmds[i].arg[1] = "ESYS_TR_RH_ENDORSEMENT"
             /\ cmds[i].arg[2] = "policy"
       /\ \A i \in 1..Len(cmds) : cmds[i].cmd = "ActivateCredential" =>
             /\ \E j \in PolicyOpenAt \cap SucceededAt("StartAuthSession") :
                   \E k \in SucceededAt("PolicySecret") : j < k /\ k < i
             /\ cmds[i].arg = <<"credentialed_key_obj", "credential_key_obj",
                                CredentialedKeyAuth, "policy">>
       /\ \A i \in PolicyOpenAt : cmds[i].rc # tool_rc_success =>
             Count({"PolicySecret", "ActivateCredential"}) = 0
       /\ Count({"PolicySecret"}) <= 1 /\ Count({"ActivateCredential"}) <= 1

\* ActivateCredential was issued for a credentialed key whose authorization
\* is a session of its own, distinct from the policy session.
C11_Witness ==
    /\ tool = "activatecredential" /\ pc = "stopped"
    /\ Count({"ActivateCredential"}) = 1
    /\ opened["credentialed_key"] = 1


\* C12: a credential file whose version header is not 1 makes
\* read_cert_secret fail: nothing after the header is read, the -i handler
\* fails with the 'i' flag unset, the run ends there and no module command
\* is issued.
C12_UnknownVersionRejected ==
    (tool = "activatecredential" /\ cred.version \notin {-1, 1}) =>
       /\ cred.read = {"version"}
       /\ ~opt.i
       /\ pc = "aborted"
       /\ cmds = <<>>


\* nv_space_define was entered and has returned: both authorizations of
\* tpm2_tool_onrun were resolved.
NvSpaceDefineReturned ==
    /\ tool = "nvdefine" /\ OnrunReturned
    /\ logged \cap {"Invalid authorization", "Invalid index authorization"} = {}

\* The answer of the define-space command, once issued.
DefineSpaceRc == cmds[CHOOSE i \in 1..Len(cmds) : cmds[i].cmd = "NV_DefineSpace"].rc

\* C13: with a declared size of 0 nv_space_define logs a warning and, unless
\* the policy file fails to load, issues define-space with dataSize 0 and
\* returns that command's result.
C13_SizeZeroStillDefines ==
    (NvSpaceDefineReturned /\ nv.size = 0) =>
       /\ "Defining an index with size 0" \in logged
       /\ (~opt.L) => Issued("NV_DefineSpace")
       /\ Issued("NV_DefineSpace") =>
             /\ nv.public_info.dataSize = 0
             /\ rc = DefineSpaceRc
       /\ (~Issued("NV_DefineSpace")) => rc = tool_rc_general_error

C13_Witness ==
    /\ NvSpaceDefineReturned /\ nv.size = 0 /\ ~opt.L
    /\ Succeeded("NV_DefineSpace") /\ rc = tool_rc_success

\* C14: the policy digest of the public area passed to define-space is the
\* policy file, byte for byte, when one is given and empty otherwise; a
\* policy file larger than the digest buffer ends nv_space_define with an
\* error and without a define-space command.
C14_PolicyDigest ==
    tool = "nvdefine" =>
       /\ Issued("NV_DefineSpace") =>
             /\ nv.public_info.authPolicy = (IF opt.L THEN nv.policy_file ELSE <<>>)
             /\ Len(nv.public_info.authPolicy) <= DigestBufferSize
       /\ (NvSpaceDefineReturned /\ opt.L /\ Len(nv.policy_file) > DigestBufferSize) =>
             /\ ~Issued("NV_DefineSpace")
             /\ rc = tool_rc_general_error

C14_Witness ==
    /\ tool = "nvdefine" /\ opt.L /\ Len(nv.policy_file) = DigestBufferSize
    /\ Succeeded("NV_DefineSpace")
    /\ nv.public_info.authPolicy = nv.policy_file

\* C15: once define-space was issued, nv_space_define returns exactly the
\* code that command answered with: success if and only if it succeeded.
C15_DefineSpaceResultReturned ==
    (tool = "nvdefine" /\ OnrunReturned /\ Issued("NV_DefineSpace")) =>
       /\ rc = DefineSpaceRc
       /\ (rc = tool_rc_success) <=> Succeeded("NV_DefineSpace")

C15_Witness ==
    /\ tool = "nvdefine" /\ pc = "stopped"
    /\ Failed("NV_DefineSpace") /\ rc = tool_rc_auth_error


\* The signature scheme that goes with a signing key type.
SchemeFor(type) ==
    CASE type = "TPM2_ALG_RSA"       -> "TPM2_ALG_RSASSA"
      [] type = "TPM2_ALG_KEYEDHASH" -> "TPM2_ALG_HMAC"
      [] type = "TPM2_ALG_ECC"       -> "TPM2_ALG_ECDSA"

\* C16: for a signing key of type RSA, KEYEDHASH or ECC the scheme passed to
\* the certify command is RSASSA, HMAC or ECDSA respectively, with the
\* requested hash algorithm.
C16_SchemePassedToCertify ==
    (tool = "certify" /\ Issued("Certify")
       /\ cert.key_type \in {"TPM2_ALG_RSA", "TPM2_ALG_KEYEDHASH", "TPM2_ALG_ECC"}) =>
          cert.sent = [scheme |-> SchemeFor(cert.key_type), hashAlg |-> cert.halg]

C16_Witness ==
    /\ tool = "certify" /\ Succeeded("Certify")
    /\ cert.key_type = "TPM2_ALG_ECC" /\ opt.g /\ cert.halg = "TPM2_ALG_SHA256"
    /\ cert.sent = [scheme |-> "TPM2_ALG_ECDSA", hashAlg |-> "TPM2_ALG_SHA256"]


\* C17: closing a session that was never opened issues no flush and reports
\* no error, so that after an onrun that created no session onstop issues
\* nothing and returns success, and an error of onstop is always the error
\* of a flush it issued; closing a session a second time changes nothing
\* and reports success.
C17_CloseIdempotent ==
    /\ \A s \in Slots : closed[s] <= opened[s]
    /\ (tool \in {"certify", "activatecredential"} /\ pc = "stopped") =>
          /\ (\A s \in Slots : opened[s] = 0) =>
                (Count({"FlushContext"}) = 0 /\ stop_rc = tool_rc_success)
          /\ stop_rc # tool_rc_success => Failed("FlushContext")
    /\ \A s \in Slots : \A r1, r2 \in CmdRc :
          LET once  == tpm2_session_close(SessState, s, r1)
              twice == tpm2_session_close(once, s, r2)
          IN /\ twice.closed = once.closed
             /\ twice.cmds = once.cmds
             /\ twice.session = once.session
             /\ twice.ret = tool_rc_success

\* certify stopped after the load of the signing key failed: the object's
\* session was started and flushed, the key's session never existed.
C17_Witness ==
    /\ tool = "certify" /\ pc = "stopped" /\ rc # tool_rc_success
    /\ opened["object"] = 1 /\ closed["object"] = 1
    /\ opened["key"] = 0 /\ closed["key"] = 0
    /\ stop_rc = tool_rc_success


\* No object load and no module command was issued by tpm2_tool_onrun: the
\* log holds at most what tpm2_tool_onstop released.
NothingIssuedByOnrun == \A i \in 1..Len(cmds) : cmds[i].cmd \in ReleaseCmds

\* C18: whenever one of the options c, C, i, o is missing, the
\* activatecredential tpm2_tool_onrun returns tool_rc_option_error and
\* issues no object load and no module command.
C18_MissingOptionIsOptionError ==
    (tool = "activatecredential" /\ OnrunReturned
       /\ ~(opt.c /\ opt.C /\ opt.i /\ opt.o)) =>
          /\ rc = tool_rc_option_error
          /\ NothingIssuedByOnrun

\* C19: the certify tpm2_tool_onrun returns tool_rc_option_error, with no
\* object loaded and no module command issued, whenever the object context,
\* the key context, the hash algorithm, the attestation file or the
\* signature file is missing, and never when all five are given.
C19_MissingInputIsOptionError ==
    (tool = "certify" /\ OnrunReturned) =>
       IF opt.C /\ opt.c /\ opt.g /\ opt.o /\ opt.s
       THEN rc # tool_rc_option_error
       ELSE rc = tool_rc_option_error /\ NothingIssuedByOnrun

\* C20: when the allocation of the policy session data fails,
\* activate_credential_and_output returns a non-success code, opens no
\* session and issues no module command.
C20_OomIsFailure ==
    (tool = "activatecredential" /\ "oom" \in logged) =>
       /\ rc # tool_rc_success
       /\ opened["policy"] = 0
       /\ Count({"StartAuthSession", "PolicySecret", "ActivateCredential"})
             = opened["credentialed_key"]


\* C21: after tpm2_ctx_mgmt_evictcontrol the new object handle of a
\* successful EvictControl is either handed out through out_tr and not
\* closed (out_tr supplied) or closed exactly once (out_tr absent); when the
\* session handle cannot be resolved no command is issued; when EvictControl
\* fails nothing is closed and out_tr is untouched.
C21_NewHandleHandledOnce ==
    (tool = "evictcontrol" /\ pc = "stopped") =>
       /\ Count({"EvictControl"}) <= 1
       /\ (Succeeded("EvictControl") /\ evict.out_tr_given) =>
             /\ evict.out_tr = "outHandle" /\ evict.handle = "live"
             /\ Count({"TR_Close"}) = 0 /\ evict.closes = 0
             /\ rc = tool_rc_success
       /\ (Succeeded("EvictControl") /\ ~evict.out_tr_given) =>
             /\ evict.out_tr = "unset" /\ evict.handle = "closed"
             /\ Count({"TR_Close"}) = 1 /\ evict.closes = 1
       /\ (~Succeeded("EvictControl")) =>
             /\ evict.out_tr = "unset" /\ evict.handle = "none"
             /\ Count({"TR_Close"}) = 0 /\ evict.closes = 0
             /\ rc # tool_rc_success
       /\ (~Issued("EvictControl")) => cmds = <<>>

C21_Witness ==
    /\ tool = "evictcontrol" /\ pc = "stopped"
    /\ Succeeded("EvictControl") /\ evict.out_tr_given
    /\ evict.out_tr = "outHandle" /\ Count({"TR_Close"}) = 0


\* C22: in no run of nvdefine, with or without the index option, is the
\* define-space command issued with nvIndex 0.
C22_IndexNeverZero ==
    (tool = "nvdefine" /\ Issued("NV_DefineSpace")) => nv.public_info.nvIndex # 0


\* C23: no sequence-update command of the HMAC read loop is issued with an
\* empty buffer, whether the input size is known or not.
C23_NoEmptySequenceUpdate ==
    tool = "hmac" =>
       \A i \in 1..Len(cmds) : cmds[i].cmd = "SequenceUpdate" => cmds[i].data # <<>>

\* C24: once define-space was issued and nv_space_define has returned, the
\* message "Success to define NV area" is logged if and only if the
\* define-space command succeeded.
C24_SuccessMessageIffSuccess ==
    (tool = "nvdefine" /\ OnrunReturned /\ Issued("NV_DefineSpace")) =>
       (("Success to define NV area" \in logged) <=> Succeeded("NV_DefineSpace"))


\* C26: read_cert_secret never reads more bytes into the credential buffer
\* or the secret buffer than the buffer holds.
C26_ReadWithinCapacity ==
    tool = "activatecredential" =>
       /\ Len(cred.credentialBlob) <= CredentialCapacity
       /\ Len(cred.secret) <= SecretCapacity


\* C27: in nvdefine the define-space command is issued only after the
\* hierarchy was loaded and both authorizations were resolved, with the auth
\* value resolved from the index auth string, and with the temporary session
\* closed; after a failed resolution it is never issued.
C27_DefineSpaceAfterAuthorizations ==
    tool = "nvdefine" =>
       /\ Issued("NV_DefineSpace") =>
             /\ logged \cap {"Invalid authorization", "Invalid index authorization"} = {}
             /\ \E i, j \in 1..Len(cmds) :
                   /\ i < j
                   /\ cmds[i].cmd = "ContextLoad" /\ cmds[i].rc = tool_rc_success
                   /\ cmds[j].cmd = "NV_DefineSpace"
             /\ session["auth_hierarchy"] # "null" \/ pc = "stopped"
             /\ nv.sent_auth = nv.index_auth
             /\ Count({"NV_DefineSpace"}) = 1
       /\ pc = "nv_space_define" =>
             /\ session["tmp"] = "null"
             /\ session["auth_hierarchy"] \in {"password", "open"}
       /\ session["tmp"] = "null" /\ opened["tmp"] = closed["tmp"]
       /\ (logged \cap {"Invalid authorization", "Invalid index authorization"} # {}) =>
             ~Issued("NV_DefineSpace")

C27_Witness ==
    /\ tool = "nvdefine" /\ pc = "stopped"
    /\ Succeeded("NV_DefineSpace")
    /\ nv.index_auth = "pw" /\ nv.sent_auth = "pw"


\* C25: tpm_hmac_file terminates: whatever size was reported and whatever
\* the reads return, a run that entered tpm_hmac_file leaves it.
C25_TpmHmacFileTerminates ==
    (tool = "hmac" /\ pc \in {"tpm_hmac_file", "hmac_loop", "hmac_complete"})
       ~> (pc \in {"do_hmac_and_output", "onstop", "stopped"})


====
